---- MODULE Spec2Model ----
(***************************************************************************)
(* Maintenance-window service of plasser_backend:                          *)
(*   job_maintain_service  (src/job_maintain_service.py:69-102)            *)
(*   get_maintenance_windows (src/job_maintain_service.py:7-66)            *)
(*                                                                         *)
(* Number representation.  TLC has integers only, so                       *)
(*  - a risk observation is an integer number of twentieths (0.05), the    *)
(*    coarsest grid that holds the documented request                      *)
(*    [0.2, 0.3, 0.25, 0.4, 0.5];                                          *)
(*  - avg_risk_factor is the exact rational <<S, k>> = S / (ObsScale * k), *)
(*    the sum of the list over its length, as np.mean computes it;         *)
(*  - a month of np.linspace is a numerator over MonthDen = num - 1;       *)
(*  - a cost is a fixed-point pair <<w, f>> = w + f / Micro dollars with   *)
(*    0 <= f < Micro (w is the floor, also for negative costs);            *)
(*  - rounded outputs are integers: month in tenths, cost in cents,        *)
(*    avg_risk_factor in thousandths.                                      *)
(* np.exp, np.sin and np.cos are tabulated at the 100 sample times to the  *)
(* nearest millionth of a dollar.  On every enumerated input the rounded   *)
(* outputs and the minima computed this way are those of the float code:   *)
(* neighbouring samples differ by more than 0.3 dollar and no value to be  *)
(* rounded lies within a millionth of a rounding tie.                      *)
(*                                                                         *)
(* The endpoint (src/main.py:57-70) runs job_maintain_service to its end   *)
(* once called; requests served by different workers run in parallel.      *)
(* SpecConc interleaves two invocations block by block, which covers both. *)
(***************************************************************************)
EXTENDS Integers, Sequences, FiniteSets, TLC

VARIABLES
  pc,               \* per request: the line the invocation is at
  entry,            \* per request: "none" | "service" | "direct"
  arg,              \* per request: the list object the caller passed
  critical_points,  \* job_maintain_service's parameter
  valid_points,     \* job_maintain_service's local (line 87)
  warned,           \* the counts printed by the warning of line 90
  risk_input_list,  \* get_maintenance_windows's parameter
  gmw_calls,        \* number of invocations of get_maintenance_windows
  avg_risk_factor,  \* line 25
  months,           \* line 28
  total_cost_curve, \* line 38
  optimal_points,   \* lines 45-51
  response          \* what the invocation returned

vars == << pc, entry, arg, critical_points, valid_points, warned,
           risk_input_list, gmw_calls, avg_risk_factor, months,
           total_cost_curve, optimal_points, response >>

----------------------------------------------------------------------------
(* Bounds of the model.                                                    *)

\* longest enumerated input list
MaxLen == 3

\* period of the synthetic curves of SpecScan
ScanPeriod == 4

\* the synthetic curves of SpecScan take the values 0 .. ScanLevels dollars
ScanLevels == 2

----------------------------------------------------------------------------
(* Program constants.                                                      *)

\* np.linspace(0, 36, 100): number of samples
NumSamples == 100

\* np.linspace(0, 36, 100): last month
Horizon == 36

\* minima_indices[:3]
MaxWindows == 3

\* one risk unit (1.0) in twentieths
ObsScale == 20

\* fractional units of a dollar in a fixed-point cost
Micro == 1000000

Requests == {1, 2}

\* Observation values: -1.0, 0.0, 0.2, 1.0, 3.0
ObsValues == {-20, 0, 4, 20, 60}

\* [0.2, 1.5, 0.4, -0.1]
ExampleMixed == << 4, 30, 8, -2 >>

\* [0.2, 0.3, 0.25, 0.4, 0.5], the request documented at src/main.py:64
ExampleDoc == << 4, 6, 5, 8, 10 >>

SeqsUpTo(S, n) == UNION { [1..m -> S] : m \in 0..n }

Inputs == SeqsUpTo(ObsValues, MaxLen) \cup {ExampleMixed, ExampleDoc}

\* the inputs of the two concurrent requests of SpecConc
ConcInputs == { <<>>, <<60>>, <<4, 60>>, <<0, 20>>, <<0, 0, 20>> }

----------------------------------------------------------------------------
(* Arithmetic.                                                             *)

Min(a, b) == IF a < b THEN a ELSE b

Max(a, b) == IF a > b THEN a ELSE b

\* Python's round(): the nearest integer to n / d (d > 0), ties to even
RoundHalfEven(n, d) ==
  LET q == n \div d
      r == n % d
  IN  IF 2 * r > d \/ (2 * r = d /\ q % 2 = 1) THEN q + 1 ELSE q

\* x * p / q for a fixed-point x and a rational p / q (q > 0), floored to
\* a millionth; split so that no intermediate value leaves 32 bits
FxScale(x, p, q) ==
  LET wp == x[1] * p
      a  == wp \div q
      b  == wp % q
      m  == (b * Micro + x[2] * p) \div q
  IN  << a + (m \div Micro), m % Micro >>

FxAdd(x, y) ==
  LET s == x[2] + y[2]
  IN  << x[1] + y[1] + (s \div Micro), s % Micro >>

\* np.less on two costs
FxLess(x, y) == x[1] < y[1] \/ (x[1] = y[1] /\ x[2] < y[2])

\* round(float(c), 2), in cents
Round2(x) == x[1] * 100 + RoundHalfEven(x[2], Micro \div 100)

\* 10000 * np.exp(0.08 * months), per sample
ExpTable ==
  << <<10000, 0>>, <<10295, 181828>>, <<10599, 76887>>, <<10911, 942376>>,
     <<11234, 43085>>, <<11565, 651622>>, <<11907, 48641>>, <<12258, 523079>>,
     <<12620, 372404>>, <<12992, 902864>>, <<13376, 429745>>, <<13771, 277643>>,
     <<14177, 780734>>, <<14596, 283057>>, <<15027, 138808>>, <<15470, 712638>>,
     <<15927, 379962>>, <<16397, 527275>>, <<16881, 552482>>, <<17379, 865234>>,
     <<17892, 887273>>, <<18421, 52790>>, <<18964, 808793>>, <<19524, 615485>>,
     <<20100, 946654>>, <<20694, 290072>>, <<21305, 147908>>, <<21934, 37159>>,
     <<22581, 490077>>, <<23248, 54628>>, <<23934, 294954>>, <<24640, 791847>>,
     <<25368, 143245>>, <<26116, 964734>>, <<26887, 890073>>, <<27681, 571727>>,
     <<28498, 681421>>, <<29339, 910708>>, <<30205, 971555>>, <<31097, 596945>>,
     <<32015, 541495>>, <<32960, 582101>>, <<33933, 518588>>, <<34935, 174392>>,
     <<35966, 397256>>, <<37028, 59944>>, <<38121, 60985>>, <<39246, 325432>>,
     <<40404, 805639>>, <<41597, 482077>>, <<42825, 364157>>, <<44089, 491084>>,
     <<45390, 932740>>, <<46730, 790589>>, <<48110, 198608>>, <<49530, 324244>>,
     <<50992, 369408>>, <<52497, 571489>>, <<54047, 204400>>, <<55642, 579658>>,
     <<57285, 47495>>, <<58975, 997998>>, <<60716, 862287>>, <<62509, 113726>>,
     <<64354, 269170>>, <<66253, 890250>>, <<68209, 584693>>, <<70223, 7681>>,
     <<72295, 863258>>, <<74429, 905764>>, <<76626, 941327>>, <<78888, 829387>>,
     <<81217, 484272>>, <<83614, 876818>>, <<86083, 36036>>, <<88624, 50828>>,
     <<91240, 71759>>, <<93933, 312874>>, <<96706, 53573>>, <<99560, 640539>>,
     <<102499, 489724>>, <<105525, 88397>>, <<108639, 997245>>, <<111846, 852541>>,
     <<115148, 368378>>, <<118547, 338963>>, <<122046, 640983>>, <<125649, 236039>>,
     <<129358, 173155>>, <<133176, 591355>>, <<137107, 722321>>, <<141154, 893130>>,
     <<145321, 529066>>, <<149611, 156523>>, <<154027, 405988>>, <<158574, 15111>>,
     <<163254, 831874>>, <<168073, 817841>>, <<173035, 51518>>, <<178142, 731796>> >>

\* -5000 * np.sin(months * 0.5) - 3000 * np.cos(months * 0.2), per sample
SeasonTable ==
  << <<-3000, 0>>, <<-3897, 839972>>, <<-4747, 303835>>, <<-5523, 88493>>,
     <<-6199, 875113>>, <<-6749, 443761>>, <<-7155, 881407>>, <<-7400, 909460>>,
     <<-7473, 353049>>, <<-7370, 769620>>, <<-7089, 249162>>, <<-6637, 392738>>,
     <<-6024, 470133>>, <<-5266, 751516>>, <<-4382, 2313>>, <<-3398, 125092>>,
     <<-2341, 927438>>, <<-1239, 990638>>, <<-123, 610693>>, <<975, 780778>>,
     <<2026, 182929>>, <<3000, 156416>>, <<3871, 611043>>, <<4617, 855447>>,
     <<5220, 313233>>, <<5665, 103533>>, <<5943, 466990>>, <<6052, 23323>>,
     <<5992, 852107>>, <<5773, 394311>>, <<5406, 177959>>, <<4908, 377137>>,
     <<4301, 219025>>, <<3609, 258638>>, <<2859, 545323>>, <<2080, 708631>>,
     <<1301, 993790>>, <<552, 278713>>, <<-141, 105035>>, <<-753, 755206>>,
     <<-1260, 406161>>, <<-1645, 387519>>, <<-1894, 568834>>, <<-1998, 896140>>,
     <<-1952, 93094>>, <<-1760, 536607>>, <<-1427, 311052>>, <<-966, 439270>>,
     <<-393, 282748>>, <<271, 97726>>, <<1001, 728888>>, <<1772, 417693>>,
     <<2554, 698648>>, <<3319, 353896>>, <<4037, 394563>>, <<4681, 36417>>,
     <<5224, 637575>>, <<5645, 567215>>, <<5924, 976550>>, <<6048, 446497>>,
     <<6006, 490564>>, <<5794, 896225>>, <<5414, 893377>>, <<4873, 144169>>,
     <<4181, 554388>>, <<3356, 912433>>, <<2420, 367640>>, <<1396, 764965>>,
     <<313, 857807>>, <<-799, 424739>>, <<-1910, 319111>>, <<-2989, 482678>>,
     <<-4006, 955620>>, <<-4932, 915427>>, <<-5742, 776173>>, <<-6414, 377738>>,
     <<-6931, 291544>>, <<-7280, 265586>>, <<-7454, 826889>>, <<-7449, 54406>>,
     <<-7271, 529723>>, <<-6927, 467084>>, <<-6431, 18374>>, <<-5803, 742921>>,
     <<-5063, 226544>>, <<-4239, 829400>>, <<-3357, 537921>>, <<-2448, 892716>>,
     <<-1541, 961827>>, <<-665, 327246>>, <<151, 52172>>, <<881, 597127>>,
     <<1504, 654765>>, <<2001, 875882>>, <<2359, 462748>>, <<2568, 610263>>,
     <<2625, 780456>>, <<2532, 801377>>, <<2296, 787201>>, <<1929, 882290>> >>

----------------------------------------------------------------------------
(* The pure steps of the two functions.                                    *)

\* variant of InRange: the upper end of the range is not tested
InRangeNoUpper(p) == 0 <= p

\* line 87: 0 <= p <= 1
InRange(p) == 0 <= p /\ p <= ObsScale

\* line 87: [p for p in critical_points if 0 <= p <= 1]
Filter(points) == SelectSeq(points, InRange)

RECURSIVE SumSeq(_)
SumSeq(s) == IF s = <<>> THEN 0 ELSE s[1] + SumSeq(Tail(s))

\* line 25: np.mean(risk_input_list) if risk_input_list else 0.5
MeanOrDefault(list) ==
  IF list # <<>> THEN << SumSeq(list), Len(list) >>
                 ELSE << ObsScale \div 2, 1 >>

\* line 62: round(float(avg_risk_factor), 3), in thousandths
Round3(avg) == RoundHalfEven(1000 * avg[1], ObsScale * avg[2])

\* line 28: np.linspace(start, stop, num), numerators over num - 1
linspace(start, stop, num) ==
  [ i \in 1..num |->
      IF i = num THEN stop * (num - 1)
                 ELSE start * (num - 1) + (i - 1) * (stop - start) ]

MonthDen == NumSamples - 1

\* round(float(months[idx]), 1), in tenths
Round1(m) == RoundHalfEven(10 * m, MonthDen)

\* variant of IntMonth: the month is rounded, not truncated
RoundedMonth(m) == RoundHalfEven(m, MonthDen)

\* int(months[idx])
IntMonth(m) == m \div MonthDen

\* variant of RiskMultiplier: the mean is rounded to 2 decimals before use
RiskMultiplierRounded(avg) ==
  << 50 + RoundHalfEven(100 * avg[1], ObsScale * avg[2]), 100 >>

\* line 32: the factor (0.5 + avg_risk_factor), as << numerator, denominator >>
RiskMultiplier(avg) ==
  << (ObsScale \div 2) * avg[2] + avg[1], ObsScale * avg[2] >>

\* lines 32-38: total_cost_curve = base_curve + seasonality
CostCurve(avg) ==
  LET mult == RiskMultiplier(avg)
  IN  [ i \in 1..NumSamples |->
          FxAdd(FxScale(ExpTable[i], mult[1], mult[2]), SeasonTable[i]) ]

\* variant of ClipIndex: mode='wrap', the curve's ends are neighbours
WrapIndex(i, n) == i % n

\* the neighbour argrelextrema compares with (mode='clip'), 0-based
ClipIndex(i, n) == Max(0, Min(i, n - 1))

\* np.less against both neighbours (order=1), 0-based index i
IsRelMin(data, i) ==
  /\ FxLess(data[i + 1], data[ClipIndex(i + 1, Len(data)) + 1])
  /\ FxLess(data[i + 1], data[ClipIndex(i - 1, Len(data)) + 1])

\* line 42: scipy.signal.argrelextrema(data, np.less)[0], 0-based, ascending
argrelextrema(data) ==
  SelectSeq([ i \in 1..Len(data) |-> i - 1 ],
            LAMBDA i : IsRelMin(data, i))

\* variant of SelectWindows: the slice is missing
SelectAllMinima(minima_indices) == minima_indices

\* variant of SelectWindows: minima_indices[-3:]
SelectLastWindows(minima_indices) ==
  SubSeq(minima_indices, Max(1, Len(minima_indices) - MaxWindows + 1),
         Len(minima_indices))

\* line 46: minima_indices[:3]
SelectWindows(minima_indices) ==
  SubSeq(minima_indices, 1, Min(MaxWindows, Len(minima_indices)))

\* line 50: f"Mes {int(months[idx])}"
Label(m) == << "Mes", IntMonth(m) >>

\* lines 47-51: one optimal point, for the 0-based index idx
OptimalPoint(ms, curve, idx) ==
  [ month |-> Round1(ms[idx + 1]),
    cost  |-> Round2(curve[idx + 1]),
    label |-> Label(ms[idx + 1]) ]

\* lines 45-51
OptimalPoints(ms, curve) ==
  LET chosen == SelectWindows(argrelextrema(curve))
  IN  [ j \in 1..Len(chosen) |-> OptimalPoint(ms, curve, chosen[j]) ]

\* variant of EveryOther: the slice s[1::2]
EveryOtherFromOne(s) == [ j \in 1..(Len(s) \div 2) |-> s[2 * j] ]

\* the slice s[::2]
EveryOther(s) == [ j \in 1..((Len(s) + 1) \div 2) |-> s[2 * j - 1] ]

\* lines 55-57: zip(months[::2], total_cost_curve[::2])
ChartData(ms, curve) ==
  LET xs == EveryOther(ms)
      ys == EveryOther(curve)
  IN  [ j \in 1..Min(Len(xs), Len(ys)) |->
          [ x |-> Round1(xs[j]), y |-> Round2(ys[j]) ] ]

\* lines 59-64
Response(list, avg, ms, curve, points) ==
  [ series_data     |-> ChartData(ms, curve),
    annotations     |-> points,
    avg_risk_factor |-> Round3(avg),
    total_points    |-> Len(list) ]

\* lines 80-84 ("No se proporcionaron puntos criticos")
EmptyInput ==
  [ error       |-> "No se proporcionaron puntos criticos",
    series_data |-> <<>>,
    annotations |-> <<>> ]

\* lines 93-97 ("No hay puntos criticos validos (deben estar entre 0 y 1)")
NoValidObservations ==
  [ error       |-> "No hay puntos criticos validos (deben estar entre 0 y 1)",
    series_data |-> <<>>,
    annotations |-> <<>> ]

\* an invocation that has not returned
NoResponse == [ pending |-> TRUE ]

----------------------------------------------------------------------------
(* The state machine: one invocation per request, a step per block.        *)

NoAvg == << 0, 1 >>

Init ==
  /\ pc = [ r \in Requests |-> "idle" ]
  /\ entry = [ r \in Requests |-> "none" ]
  /\ arg = [ r \in Requests |-> <<>> ]
  /\ critical_points = [ r \in Requests |-> <<>> ]
  /\ valid_points = [ r \in Requests |-> <<>> ]
  /\ warned = [ r \in Requests |-> <<>> ]
  /\ risk_input_list = [ r \in Requests |-> <<>> ]
  /\ gmw_calls = [ r \in Requests |-> 0 ]
  /\ avg_risk_factor = [ r \in Requests |-> NoAvg ]
  /\ months = [ r \in Requests |-> <<>> ]
  /\ total_cost_curve = [ r \in Requests |-> <<>> ]
  /\ optimal_points = [ r \in Requests |-> <<>> ]
  /\ response = [ r \in Requests |-> NoResponse ]

\* src/main.py:70: the endpoint calls job_maintain_service(critical_points)
CallService(r, points) ==
  /\ pc[r] = "idle"
  /\ pc' = [pc EXCEPT ![r] = "jms_79"]
  /\ entry' = [entry EXCEPT ![r] = "service"]
  /\ arg' = [arg EXCEPT ![r] = points]
  /\ critical_points' = [critical_points EXCEPT ![r] = points]
  /\ UNCHANGED << valid_points, warned, risk_input_list, gmw_calls,
                  avg_risk_factor, months, total_cost_curve, optimal_points,
                  response >>

\* variant of CheckEmpty: the test of line 79 is missing
CheckEmptyMissing(r) ==
  /\ pc[r] = "jms_79"
  /\ pc' = [pc EXCEPT ![r] = "jms_87"]
  /\ UNCHANGED << entry, arg, critical_points, valid_points, warned,
                  risk_input_list, gmw_calls, avg_risk_factor, months,
                  total_cost_curve, optimal_points, response >>

\* lines 79-84
CheckEmpty(r) ==
  /\ pc[r] = "jms_79"
  /\ IF critical_points[r] = <<>>
       THEN /\ response' = [response EXCEPT ![r] = EmptyInput]
            /\ pc' = [pc EXCEPT ![r] = "done"]
       ELSE /\ pc' = [pc EXCEPT ![r] = "jms_87"]
            /\ UNCHANGED response
  /\ UNCHANGED << entry, arg, critical_points, valid_points, warned,
                  risk_input_list, gmw_calls, avg_risk_factor, months,
                  total_cost_curve, optimal_points >>

\* variant of Validate: valid_points is a module-level list, one for all
\* requests
ValidateShared(r) ==
  /\ pc[r] = "jms_87"
  /\ LET valid == Filter(critical_points[r])
     IN  /\ valid_points' = [ q \in Requests |-> valid ]
         /\ warned' =
              IF Len(valid) # Len(critical_points[r])
                THEN [warned EXCEPT ![r] =
                        Append(@, Len(critical_points[r]) - Len(valid))]
                ELSE warned
  /\ pc' = [pc EXCEPT ![r] = "jms_92"]
  /\ UNCHANGED << entry, arg, critical_points, risk_input_list, gmw_calls,
                  avg_risk_factor, months, total_cost_curve, optimal_points,
                  response >>

\* lines 87-90
Validate(r) ==
  /\ pc[r] = "jms_87"
  /\ LET valid == Filter(critical_points[r])
     IN  /\ valid_points' = [valid_points EXCEPT ![r] = valid]
         /\ warned' =
              IF Len(valid) # Len(critical_points[r])
                THEN [warned EXCEPT ![r] =
                        Append(@, Len(critical_points[r]) - Len(valid))]
                ELSE warned
  /\ pc' = [pc EXCEPT ![r] = "jms_92"]
  /\ UNCHANGED << entry, arg, critical_points, risk_input_list, gmw_calls,
                  avg_risk_factor, months, total_cost_curve, optimal_points,
                  response >>

\* variant of CheckValid: line 100 passes critical_points, not valid_points
CheckValidRaw(r) ==
  /\ pc[r] = "jms_92"
  /\ IF valid_points[r] = <<>>
       THEN /\ response' = [response EXCEPT ![r] = NoValidObservations]
            /\ pc' = [pc EXCEPT ![r] = "done"]
            /\ UNCHANGED << risk_input_list, gmw_calls >>
       ELSE /\ risk_input_list' =
                 [risk_input_list EXCEPT ![r] = critical_points[r]]
            /\ gmw_calls' = [gmw_calls EXCEPT ![r] = @ + 1]
            /\ pc' = [pc EXCEPT ![r] = "gmw_25"]
            /\ UNCHANGED response
  /\ UNCHANGED << entry, arg, critical_points, valid_points, warned,
                  avg_risk_factor, months, total_cost_curve, optimal_points >>

\* lines 92-100
CheckValid(r) ==
  /\ pc[r] = "jms_92"
  /\ IF valid_points[r] = <<>>
       THEN /\ response' = [response EXCEPT ![r] = NoValidObservations]
            /\ pc' = [pc EXCEPT ![r] = "done"]
            /\ UNCHANGED << risk_input_list, gmw_calls >>
       ELSE /\ risk_input_list' =
                 [risk_input_list EXCEPT ![r] = valid_points[r]]
            /\ gmw_calls' = [gmw_calls EXCEPT ![r] = @ + 1]
            /\ pc' = [pc EXCEPT ![r] = "gmw_25"]
            /\ UNCHANGED response
  /\ UNCHANGED << entry, arg, critical_points, valid_points, warned,
                  avg_risk_factor, months, total_cost_curve, optimal_points >>

\* line 7: get_maintenance_windows called on its own, with any list
CallDirect(r, list) ==
  /\ pc[r] = "idle"
  /\ pc' = [pc EXCEPT ![r] = "gmw_25"]
  /\ entry' = [entry EXCEPT ![r] = "direct"]
  /\ arg' = [arg EXCEPT ![r] = list]
  /\ risk_input_list' = [risk_input_list EXCEPT ![r] = list]
  /\ gmw_calls' = [gmw_calls EXCEPT ![r] = @ + 1]
  /\ UNCHANGED << critical_points, valid_points, warned, avg_risk_factor,
                  months, total_cost_curve, optimal_points, response >>

\* lines 25-38
BuildCurve(r) ==
  /\ pc[r] = "gmw_25"
  /\ LET avg == MeanOrDefault(risk_input_list[r])
     IN  /\ avg_risk_factor' = [avg_risk_factor EXCEPT ![r] = avg]
         /\ months' = [months EXCEPT ![r] = linspace(0, Horizon, NumSamples)]
         /\ total_cost_curve' = [total_cost_curve EXCEPT ![r] = CostCurve(avg)]
  /\ pc' = [pc EXCEPT ![r] = "gmw_42"]
  /\ UNCHANGED << entry, arg, critical_points, valid_points, warned,
                  risk_input_list, gmw_calls, optimal_points, response >>

\* lines 42-51
FindMinima(r) ==
  /\ pc[r] = "gmw_42"
  /\ optimal_points' =
       [optimal_points EXCEPT ![r] = OptimalPoints(months[r], total_cost_curve[r])]
  /\ pc' = [pc EXCEPT ![r] = "gmw_55"]
  /\ UNCHANGED << entry, arg, critical_points, valid_points, warned,
                  risk_input_list, gmw_calls, avg_risk_factor, months,
                  total_cost_curve, response >>

\* lines 55-66, and line 102 when job_maintain_service is the caller
Format(r) ==
  /\ pc[r] = "gmw_55"
  /\ response' =
       [response EXCEPT ![r] =
          Response(risk_input_list[r], avg_risk_factor[r], months[r],
                   total_cost_curve[r], optimal_points[r])]
  /\ pc' = [pc EXCEPT ![r] = "done"]
  /\ UNCHANGED << entry, arg, critical_points, valid_points, warned,
                  risk_input_list, gmw_calls, avg_risk_factor, months,
                  total_cost_curve, optimal_points >>

\* the steps of a running invocation
Step(r) ==
  \/ CheckEmpty(r)
  \/ Validate(r)
  \/ CheckValid(r)
  \/ BuildCurve(r)
  \/ FindMinima(r)
  \/ Format(r)

\* one request at a time
Next ==
  \/ \E points \in Inputs : CallService(1, points)
  \/ \E list \in Inputs : CallDirect(1, list)
  \/ Step(1)

Spec == Init /\ [][Next]_vars

\* two requests, their steps interleaved in every order
NextConc ==
  \E r \in Requests :
    \/ \E points \in ConcInputs : CallService(r, points)
    \/ \E list \in ConcInputs : CallDirect(r, list)
    \/ Step(r)

SpecConc == Init /\ [][NextConc]_vars

----------------------------------------------------------------------------
(* The scan of lines 42-66 on arbitrary curves.  No risk factor gives a    *)
(* curve with more than three minima, with a plateau, or with equal        *)
(* neighbours, so SpecScan also starts get_maintenance_windows after       *)
(* line 38 with total_cost_curve holding any curve of a periodic family.   *)

\* the 100-sample curve repeating the pattern p (whole dollars)
Tile(p) == [ i \in 1..NumSamples |-> << p[((i - 1) % Len(p)) + 1], 0 >> ]

SyntheticCurves == { Tile(p) : p \in [1..ScanPeriod -> 0..ScanLevels] }

InitScan ==
  /\ pc = [ r \in Requests |-> IF r = 1 THEN "gmw_42" ELSE "idle" ]
  /\ entry = [ r \in Requests |-> IF r = 1 THEN "direct" ELSE "none" ]
  /\ arg = [ r \in Requests |-> <<>> ]
  /\ critical_points = [ r \in Requests |-> <<>> ]
  /\ valid_points = [ r \in Requests |-> <<>> ]
  /\ warned = [ r \in Requests |-> <<>> ]
  /\ risk_input_list = [ r \in Requests |-> <<>> ]
  /\ gmw_calls = [ r \in Requests |-> IF r = 1 THEN 1 ELSE 0 ]
  /\ avg_risk_factor =
       [ r \in Requests |-> IF r = 1 THEN MeanOrDefault(<<>>) ELSE NoAvg ]
  /\ months =
       [ r \in Requests |->
           IF r = 1 THEN linspace(0, Horizon, NumSamples) ELSE <<>> ]
  /\ \E curve \in SyntheticCurves :
       total_cost_curve = [ r \in Requests |-> IF r = 1 THEN curve ELSE <<>> ]
  /\ optimal_points = [ r \in Requests |-> <<>> ]
  /\ response = [ r \in Requests |-> NoResponse ]

SpecScan == (Init \/ InitScan) /\ [][Next]_vars

----------------------------------------------------------------------------
(* Vocabulary of the properties.                                           *)

Done(r) == pc[r] = "done"

Succeeded(r) == Done(r) /\ "avg_risk_factor" \in DOMAIN response[r]

\* the values of a list that lie in [0, 1], in their order
RECURSIVE InRangeSub(_)
InRangeSub(s) ==
  IF s = <<>> THEN <<>>
  ELSE IF s[1] >= 0 /\ s[1] <= 20
         THEN << s[1] >> \o InRangeSub(Tail(s))
         ELSE InRangeSub(Tail(s))

AllOutOfRange(s) == \A i \in 1..Len(s) : s[i] < 0 \/ s[i] > 20

\* what get_maintenance_windows returns for a list, run on its own
GmwAlone(list) ==
  LET avg   == MeanOrDefault(list)
      ms    == linspace(0, Horizon, NumSamples)
      curve == CostCurve(avg)
  IN  Response(list, avg, ms, curve, OptimalPoints(ms, curve))

\* what an invocation returns, run on its own
RunAlone(how, list) ==
  IF how = "direct" THEN GmwAlone(list)
  ELSE IF list = <<>> THEN EmptyInput
  ELSE IF Filter(list) = <<>> THEN NoValidObservations
  ELSE GmwAlone(Filter(list))

\* the 0-based strictly interior indices whose cost is strictly below both
\* neighbours
InteriorMinima(curve) ==
  { i \in 1..(Len(curve) - 2) :
      /\ FxLess(curve[i + 1], curve[i])
      /\ FxLess(curve[i + 1], curve[i + 2]) }

\* the j-th smallest element of a set of integers
Nth(S, j) == CHOOSE i \in S : Cardinality({ m \in S : m < i }) = j - 1

\* the requests whose scan (lines 42-51) has run
Scanned == { r \in Requests : pc[r] \in {"gmw_55", "done"} /\ entry[r] # "none"
                               /\ total_cost_curve[r] # <<>> }

----------------------------------------------------------------------------
(* C1: for an empty observation list job_maintain_service returns the      *)
(* EmptyInput result (an error message with empty series_data and empty    *)
(* annotations) straight from line 79: it never invokes                    *)
(* get_maintenance_windows, so no curve is built from the 0.5 default.     *)
C1_EmptyInput ==
  \A r \in Requests :
    (entry[r] = "service" /\ arg[r] = <<>>) =>
      /\ pc[r] \in {"jms_79", "done"}
      /\ gmw_calls[r] = 0
      /\ avg_risk_factor[r] = NoAvg
      /\ total_cost_curve[r] = <<>>
      /\ Done(r) =>
           response[r] = [ error       |-> "No se proporcionaron puntos criticos",
                           series_data |-> <<>>,
                           annotations |-> <<>> ]

C1_Witness ==
  \E r \in Requests :
    entry[r] = "service" /\ arg[r] = <<>> /\ Done(r)
    /\ "error" \in DOMAIN response[r]

(* C2: for a non-empty list whose values all lie outside [0,1]             *)
(* job_maintain_service returns the NoValidObservations result: the shape  *)
(* of EmptyInput with another message, and get_maintenance_windows is      *)
(* never invoked.                                                          *)
C2_NoValidObservations ==
  \A r \in Requests :
    (entry[r] = "service" /\ arg[r] # <<>> /\ AllOutOfRange(arg[r])) =>
      /\ pc[r] \in {"jms_79", "jms_87", "jms_92", "done"}
      /\ gmw_calls[r] = 0
      /\ total_cost_curve[r] = <<>>
      /\ Done(r) =>
           /\ DOMAIN response[r] = {"error", "series_data", "annotations"}
           /\ response[r].series_data = <<>>
           /\ response[r].annotations = <<>>
           /\ response[r].error =
                "No hay puntos criticos validos (deben estar entre 0 y 1)"
           /\ response[r].error # "No se proporcionaron puntos criticos"

C2_Witness ==
  \E r \in Requests :
    entry[r] = "service" /\ arg[r] # <<>> /\ AllOutOfRange(arg[r]) /\ Done(r)
    /\ Len(arg[r]) > 1 /\ warned[r] = << Len(arg[r]) >>

(* C3: when at least one value lies in [0,1] the out-of-range values are   *)
(* dropped and the call succeeds with the result of the in-range           *)
(* subsequence alone: avg_risk_factor is the mean of the in-range values   *)
(* rounded to 3 decimals and total_points is their number.                 *)
C3_PartialFiltering ==
  \A r \in Requests :
    (entry[r] = "service" /\ Done(r) /\ InRangeSub(arg[r]) # <<>>) =>
      LET kept == InRangeSub(arg[r])
      IN  /\ Succeeded(r)
          /\ response[r] = GmwAlone(kept)
          /\ response[r].avg_risk_factor =
               RoundHalfEven(1000 * SumSeq(kept), 20 * Len(kept))
          /\ response[r].total_points = Len(kept)

C3_Witness ==
  \E r \in Requests :
    /\ entry[r] = "service" /\ Done(r)
    /\ arg[r] = ExampleMixed
    /\ response[r].avg_risk_factor = 300
    /\ response[r].total_points = 2
    /\ warned[r] = << 2 >>

(* C4: the annotations of get_maintenance_windows are at most 3 and their  *)
(* rounded month values are strictly increasing.                           *)
C4_AtMostThreeIncreasing ==
  \A r \in Requests :
    LET checked(points) ==
          /\ Len(points) <= 3
          /\ \A j \in 1..(Len(points) - 1) : points[j].month < points[j + 1].month
    IN  /\ checked(optimal_points[r])
        /\ Succeeded(r) => checked(response[r].annotations)

C4_Witness ==
  \E r \in Requests :
    /\ Succeeded(r)
    /\ Cardinality(InteriorMinima(total_cost_curve[r])) > 3
    /\ Len(response[r].annotations) = 3

(* C5: every annotation is the sample of the full curve at a strictly      *)
(* interior index (0 < i < 99) whose cost is strictly below the costs at   *)
(* i-1 and i+1; indices 0 and 99 are never reported, even when below their *)
(* only neighbour, and neither is a sample equal to a neighbour.           *)
C5_StrictInteriorMinima ==
  \A r \in Scanned :
    \A j \in 1..Len(optimal_points[r]) :
      \E i \in 1..98 :
        /\ optimal_points[r][j].month = Round1(months[r][i + 1])
        /\ optimal_points[r][j].cost = Round2(total_cost_curve[r][i + 1])
        /\ FxLess(total_cost_curve[r][i + 1], total_cost_curve[r][i])
        /\ FxLess(total_cost_curve[r][i + 1], total_cost_curve[r][i + 2])

C5_Witness ==
  \E r \in Scanned :
    /\ FxLess(total_cost_curve[r][100], total_cost_curve[r][99])
    /\ Len(optimal_points[r]) = 2
    /\ Succeeded(r)

(* C6: with k strict interior local minima in the full curve the           *)
(* annotations are exactly the min(3, k) earliest of them, in time order:  *)
(* none of the earliest is skipped and, when k > 3, the later ones are     *)
(* left out even when cheaper than a reported one.                         *)
C6_EarliestThree ==
  \A r \in Scanned :
    LET mins == InteriorMinima(total_cost_curve[r])
        n    == IF Cardinality(mins) < 3 THEN Cardinality(mins) ELSE 3
    IN  /\ Len(optimal_points[r]) = n
        /\ \A j \in 1..n :
             LET i == Nth(mins, j)
             IN  /\ optimal_points[r][j].month = Round1(months[r][i + 1])
                 /\ optimal_points[r][j].cost = Round2(total_cost_curve[r][i + 1])
        /\ Succeeded(r) => response[r].annotations = optimal_points[r]

C6_Witness ==
  \E r \in Scanned :
    LET mins == InteriorMinima(total_cost_curve[r])
    IN  /\ Cardinality(mins) > 3
        /\ Succeeded(r)
        /\ \E late \in mins :
             /\ late > Nth(mins, 3)
             /\ FxLess(total_cost_curve[r][late + 1],
                       total_cost_curve[r][Nth(mins, 1) + 1])

(* C7: the full curve has exactly 100 samples, evenly spaced over [0, 36]  *)
(* with both ends included and time strictly increasing; series_data has   *)
(* exactly 50 entries, entry k (k = 0..49) being the rounded sample of     *)
(* index 2k.                                                               *)
C7_CurveAndDownsampling ==
  \A r \in Requests :
    (months[r] # <<>>) =>
      /\ Len(months[r]) = 100
      /\ Len(total_cost_curve[r]) = 100
      /\ months[r][1] = 0
      /\ months[r][100] = 36 * 99
      /\ \A i \in 1..99 :
           /\ months[r][i] < months[r][i + 1]
           /\ months[r][i + 1] - months[r][i] = months[r][2] - months[r][1]
      /\ Succeeded(r) =>
           /\ Len(response[r].series_data) = 50
           /\ \A k \in 0..49 :
                response[r].series_data[k + 1] =
                  [ x |-> Round1(months[r][2 * k + 1]),
                    y |-> Round2(total_cost_curve[r][2 * k + 1]) ]

C7_Witness ==
  \E r \in Requests :
    /\ Succeeded(r)
    /\ entry[r] = "direct" /\ arg[r] = <<>>
    /\ response[r].series_data[1].x = 0
    /\ response[r].series_data[50].x = 356

(* C8: an invocation's result depends on its own input only: under every   *)
(* interleaving of two invocations each returns what it returns when run   *)
(* alone, equal inputs give equal results, and the list passed in is left  *)
(* as it was.                                                              *)
C8_Independent ==
  /\ \A r \in Requests :
       /\ Done(r) => response[r] = RunAlone(entry[r], arg[r])
       /\ entry[r] = "service" => critical_points[r] = arg[r]
       /\ entry[r] = "direct" => risk_input_list[r] = arg[r]
  /\ \A r1, r2 \in Requests :
       (Done(r1) /\ Done(r2) /\ entry[r1] = entry[r2] /\ arg[r1] = arg[r2]) =>
         response[r1] = response[r2]

C8_Witness ==
  /\ Succeeded(1) /\ Succeeded(2)
  /\ entry[1] = "service" /\ entry[2] = "service"
  /\ arg[1] # arg[2]
  /\ Filter(arg[1]) # arg[1]
  /\ response[1] # response[2]

(* C9: a successful call's first series_data entry has x = 0 and           *)
(* y = 10000 * (0.5 + riskFactor) - 3000 rounded to 2 decimals, riskFactor *)
(* being the unrounded mean of the valid observations; the documented      *)
(* request [0.2, 0.3, 0.25, 0.4, 0.5] gives riskFactor 0.33 and 5300.      *)
C9_CostAtZero ==
  \A r \in Requests :
    (entry[r] = "service" /\ Succeeded(r)) =>
      LET kept == InRangeSub(arg[r])
          s    == SumSeq(kept)
          k    == Len(kept)
      IN  /\ response[r].series_data[1].x = 0
          /\ response[r].series_data[1].y =
               RoundHalfEven(1000000 * (10 * k + s), 20 * k) - 300000
          /\ arg[r] = ExampleDoc =>
               /\ response[r].avg_risk_factor = 330
               /\ response[r].series_data[1].y = 530000

C9_Witness ==
  \E r \in Requests :
    /\ entry[r] = "service" /\ Succeeded(r)
    /\ arg[r] = ExampleDoc
    /\ response[r].series_data[1] = [ x |-> 0, y |-> 530000 ]

(* C10: an annotation's label carries the sample time of its minimum       *)
(* truncated to an integer, which is the integer part of the annotation's  *)
(* month field and never one more (month 5.8 is labelled 5, not 6).        *)
C10_TruncatedLabel ==
  \A r \in Scanned :
    \A j \in 1..Len(optimal_points[r]) :
      LET a == optimal_points[r][j]
      IN  /\ a.label[1] = "Mes"
          /\ a.label[2] = a.month \div 10
          /\ a.label[2] # (a.month \div 10) + 1
          /\ \E i \in 0..99 :
               /\ a.month = Round1(months[r][i + 1])
               /\ a.label[2] * 99 <= months[r][i + 1]
               /\ months[r][i + 1] < (a.label[2] + 1) * 99

C10_Witness ==
  \E r \in Scanned :
    \E j \in 1..Len(optimal_points[r]) :
      /\ optimal_points[r][j].month % 10 >= 5
      /\ optimal_points[r][j].label = << "Mes", optimal_points[r][j].month \div 10 >>
      /\ Succeeded(r)

====
